---- MODULE Spec2Model ----
(***************************************************************************)
(* Presence & proximity visibility of the motocosmos API: the friend       *)
(* graph (controllers/friend_controller.go), the location repository and   *)
(* service (repositories/location_repository.go,                           *)
(* services/location_service.go) and the locator controller.               *)
(*                                                                         *)
(* Every HTTP handler is a sequence of database statements.  A statement   *)
(* (or a gorm transaction) is one atomic step; a handler that issues       *)
(* several is split at each statement, so concurrent requests interleave   *)
(* between them.  Read-only handlers are evaluated on one snapshot.        *)
(*                                                                         *)
(* User ids are strings compared with < in the code; here they are the     *)
(* integers 1..NumUsers with the same order.  Coordinates are fixed-point: *)
(* an integer is a number of 1e-4 degrees (470004 is 47.0004).             *)
(***************************************************************************)
EXTENDS Integers, Sequences, FiniteSets, TLC

\* ------------------------------------------------------------------ bounds
NumUsers == 2
MaxRequests == 3
NumProcs == 2

Users == 1..NumUsers
\* a user id that is not in the users table
Ghost == NumUsers + 1
Procs == 1..NumProcs

VARIABLES
  requests,      \* friend_requests table: row id (index) -> [sender, receiver, status]
  friendships,   \* friendships table: set of rows [id, user1, user2]
  friendshipSeq, \* auto-increment counter of the friendships table
  locations,     \* user_locations table: user -> the row found by user_id, or NoRow
  userLocationRows, \* user_locations table: user -> number of rows with that user_id
  settings,      \* location_visibility_settings table: user -> row or NoRow
  allowed,       \* location_visibility_allowed table: set of <<owner, allowed user>>
  proc,          \* the in-flight HTTP requests: one record per worker
  now,           \* the wall clock, in minutes
  job            \* the LocationCleanupJob: its goroutine, ticker and Stop() caller

vars == <<requests, friendships, friendshipSeq, locations, userLocationRows,
          settings, allowed, proc, now, job>>
friendVars == <<requests, friendships, friendshipSeq>>
locVars == <<locations, userLocationRows, settings, allowed>>
jobVars == <<now, job>>

NoRow == [none |-> TRUE]

Idle == [op |-> "none", pc |-> "idle", user |-> 0, arg |-> 0, tmp |-> 0,
         res |-> "none", out |-> {}]

\* the handler of worker p has answered with status r
Finish(p, r) == proc' = [proc EXCEPT ![p].pc = "done", ![p].res = r, ![p].tmp = 0]

\* NewLocationCleanupJob: the ticker runs from construction, the goroutine
\* is not started; tickC is the one-slot channel of the ticker, stop the
\* position of the caller of Stop()
NewLocationCleanupJob ==
  [loop |-> "new", tickerOn |-> TRUE, tickC |-> FALSE, stop |-> "none"]

\* ------------------------------------------------- friend graph: tables

FriendRequestStatusPending == "pending"
FriendRequestStatusAccepted == "accepted"
FriendRequestStatusRejected == "rejected"

RequestIds == 1..Len(requests)

\* canonical (user1, user2) of a pair: comparison and swap
Canon(a, b) == IF a > b THEN <<b, a>> ELSE <<a, b>>

\* the lookup of fc.areFriends with the ids in the order given
areFriendsAsGiven(user1ID, user2ID) ==
  \E f \in friendships : f.user1 = user1ID /\ f.user2 = user2ID

\* fc.areFriends: canonicalise, then look the row up
areFriends(user1ID, user2ID) ==
  LET c == Canon(user1ID, user2ID)
  IN \E f \in friendships : f.user1 = c[1] /\ f.user2 = c[2]

\* uk_friend_requests_sender_receiver UNIQUE (sender_id, receiver_id):
\* TRUE when inserting (s, r) would violate it
UkFriendRequestsViolated(s, r) ==
  \E i \in RequestIds : requests[i].sender = s /\ requests[i].receiver = r

\* ck_friend_requests_no_self CHECK (sender_id != receiver_id)
CkFriendRequestsViolated(s, r) == s = r

\* the friendships table without its unique key (the ALTER TABLE did not apply)
UkFriendshipsMissing(u1, u2) == FALSE

\* uk_friendships_users UNIQUE (user1_id, user2_id)
UkFriendshipsViolated(u1, u2) ==
  \E f \in friendships : f.user1 = u1 /\ f.user2 = u2

\* ck_friendships_order CHECK (user1_id < user2_id)
CkFriendshipsViolated(u1, u2) == ~(u1 < u2)

\* the lookup of line 128 for the direction sender -> receiver only
PendingFromSender(a, b) ==
  \E i \in RequestIds :
     /\ requests[i].status = FriendRequestStatusPending
     /\ requests[i].sender = a /\ requests[i].receiver = b

\* the pending request between a and b, either direction (line 128)
PendingBetween(a, b) ==
  \E i \in RequestIds :
     /\ requests[i].status = FriendRequestStatusPending
     /\ \/ requests[i].sender = a /\ requests[i].receiver = b
        \/ requests[i].sender = b /\ requests[i].receiver = a

\* workers that are between the checks and the insert of SendFriendRequest
Sending == {q \in Procs : proc[q].pc \in {"send_existing", "send_create"}}

\* ------------------------------------------------ friend graph: handlers

\* SendFriendRequest, lines 107-125: self check, receiver lookup, areFriends
SendFriendRequest(p, senderID, receiverID) ==
  /\ proc[p].pc = "idle"
  /\ Len(requests) + Cardinality(Sending) < MaxRequests
  /\ LET call == [Idle EXCEPT !.op = "send", !.user = senderID, !.arg = receiverID]
     IN proc' = [proc EXCEPT ![p] =
          IF senderID = receiverID
            THEN [call EXCEPT !.pc = "done", !.res = "self_reference"]
          ELSE IF receiverID \notin Users
            THEN [call EXCEPT !.pc = "done", !.res = "not_found"]
          ELSE IF areFriends(senderID, receiverID)
            THEN [call EXCEPT !.pc = "done", !.res = "already_friends"]
          ELSE [call EXCEPT !.pc = "send_existing"]]
  /\ UNCHANGED <<friendVars, locVars, jobVars>>

\* lines 127-134: a pending request in either direction is a conflict
SendCheckExisting(p) ==
  /\ proc[p].pc = "send_existing"
  /\ IF PendingBetween(proc[p].user, proc[p].arg)
       THEN Finish(p, "duplicate_request")
       ELSE proc' = [proc EXCEPT ![p].pc = "send_create"]
  /\ UNCHANGED <<friendVars, locVars, jobVars>>

\* lines 136-151: insert the pending row; a constraint violation is a 500
SendCreate(p) ==
  /\ proc[p].pc = "send_create"
  /\ LET s == proc[p].user
         r == proc[p].arg
     IN IF UkFriendRequestsViolated(s, r) \/ CkFriendRequestsViolated(s, r)
          THEN /\ Finish(p, "error")
               /\ UNCHANGED requests
          ELSE /\ requests' = Append(requests,
                     [sender |-> s, receiver |-> r,
                      status |-> FriendRequestStatusPending])
               /\ Finish(p, "ok")
  /\ UNCHANGED <<friendships, friendshipSeq, locVars, jobVars>>

\* the lookup of accept and reject without the receiver_id condition
FindPendingForAnyone(requestID, userID) ==
  /\ requestID \in RequestIds
  /\ requests[requestID].status = FriendRequestStatusPending

\* the lookup shared by accept and reject (lines 164-169, 212-217):
\* id = ? AND receiver_id = ? AND status = pending
FindPendingFor(requestID, userID) ==
  /\ requestID \in RequestIds
  /\ requests[requestID].receiver = userID
  /\ requests[requestID].status = FriendRequestStatusPending

\* AcceptFriendRequest, lines 154-169: load the row into friendRequest
AcceptFriendRequest(p, userID, requestID) ==
  /\ proc[p].pc = "idle"
  /\ LET call == [Idle EXCEPT !.op = "accept", !.user = userID, !.arg = requestID]
     IN proc' = [proc EXCEPT ![p] =
          IF FindPendingFor(requestID, userID)
            THEN [call EXCEPT !.pc = "accept_tx", !.tmp = requests[requestID]]
            ELSE [call EXCEPT !.pc = "done", !.res = "not_found"]]
  /\ UNCHANGED <<friendVars, locVars, jobVars>>

\* the transaction of lines 171-192 commits both writes
AcceptCommit(p) ==
  LET id == proc[p].arg
      fr == proc[p].tmp
      c  == Canon(fr.sender, fr.receiver)
  IN /\ requests' = [requests EXCEPT ![id] =
            [fr EXCEPT !.status = FriendRequestStatusAccepted]]
     /\ friendships' = friendships \cup
            {[id |-> friendshipSeq + 1, user1 |-> c[1], user2 |-> c[2]]}
     /\ friendshipSeq' = friendshipSeq + 1
     /\ Finish(p, "ok")

\* the two writes without a transaction: the Save is kept when the insert fails
AcceptKeepsSave(p) ==
  /\ requests' = [requests EXCEPT ![proc[p].arg] =
         [proc[p].tmp EXCEPT !.status = FriendRequestStatusAccepted]]
  /\ UNCHANGED <<friendships, friendshipSeq>>
  /\ Finish(p, "error")

\* the transaction rolls back: neither write is kept
AcceptRollback(p) ==
  /\ UNCHANGED friendVars
  /\ Finish(p, "error")

\* lines 171-199: Save(status = accepted) and Create(friendship) in one
\* transaction; the insert fails on a constraint of the friendships table
AcceptTransaction(p) ==
  /\ proc[p].pc = "accept_tx"
  /\ LET c == Canon(proc[p].tmp.sender, proc[p].tmp.receiver)
     IN IF UkFriendshipsViolated(c[1], c[2]) \/ CkFriendshipsViolated(c[1], c[2])
          THEN AcceptRollback(p)
          ELSE AcceptCommit(p)
  /\ UNCHANGED <<locVars, jobVars>>

\* RejectFriendRequest, lines 202-217
RejectFriendRequest(p, userID, requestID) ==
  /\ proc[p].pc = "idle"
  /\ LET call == [Idle EXCEPT !.op = "reject", !.user = userID, !.arg = requestID]
     IN proc' = [proc EXCEPT ![p] =
          IF FindPendingFor(requestID, userID)
            THEN [call EXCEPT !.pc = "reject_save", !.tmp = requests[requestID]]
            ELSE [call EXCEPT !.pc = "done", !.res = "not_found"]]
  /\ UNCHANGED <<friendVars, locVars, jobVars>>

\* lines 219-225: Save writes the loaded row back with status rejected
RejectSave(p) ==
  /\ proc[p].pc = "reject_save"
  /\ requests' = [requests EXCEPT ![proc[p].arg] =
         [proc[p].tmp EXCEPT !.status = FriendRequestStatusRejected]]
  /\ Finish(p, "ok")
  /\ UNCHANGED <<friendships, friendshipSeq, locVars, jobVars>>

\* RemoveFriend, lines 228-246: self check, canonical lookup
RemoveFriend(p, userID, friendID) ==
  /\ proc[p].pc = "idle"
  /\ LET call == [Idle EXCEPT !.op = "remove", !.user = userID, !.arg = friendID]
         c == Canon(userID, friendID)
         found == {f \in friendships : f.user1 = c[1] /\ f.user2 = c[2]}
     IN proc' = [proc EXCEPT ![p] =
          IF userID = friendID
            THEN [call EXCEPT !.pc = "done", !.res = "bad_request"]
          ELSE IF found = {}
            THEN [call EXCEPT !.pc = "done", !.res = "not_found"]
          ELSE [call EXCEPT !.pc = "remove_delete",
                            !.tmp = (CHOOSE f \in found :
                                       \A g \in found : f.id <= g.id).id]]
  /\ UNCHANGED <<friendVars, locVars, jobVars>>

\* the delete cascading to the requests of the pair (marked rejected)
RemoveDeleteWithRequests(p) ==
  /\ proc[p].pc = "remove_delete"
  /\ friendships' = {f \in friendships : f.id # proc[p].tmp}
  /\ requests' = [i \in RequestIds |->
         IF {requests[i].sender, requests[i].receiver} = {proc[p].user, proc[p].arg}
           THEN [requests[i] EXCEPT !.status = FriendRequestStatusRejected]
           ELSE requests[i]]
  /\ Finish(p, "ok")
  /\ UNCHANGED <<friendshipSeq, locVars, jobVars>>

\* lines 248-253: Delete(&friendship) deletes by the primary key that was read
RemoveDelete(p) ==
  /\ proc[p].pc = "remove_delete"
  /\ friendships' = {f \in friendships : f.id # proc[p].tmp}
  /\ Finish(p, "ok")
  /\ UNCHANGED <<requests, friendshipSeq, locVars, jobVars>>

\* the response has been written: the worker takes the next request
Return(p) ==
  /\ proc[p].pc = "done"
  /\ proc' = [proc EXCEPT ![p] = Idle]
  /\ UNCHANGED <<friendVars, locVars, jobVars>>

\* ----------------------------------------------------------- friend spec

Init ==
  /\ requests = <<>>
  /\ friendships = {}
  /\ friendshipSeq = 0
  /\ locations = [u \in Users |-> NoRow]
  /\ userLocationRows = [u \in Users |-> 0]
  /\ settings = [u \in Users |-> NoRow]
  /\ allowed = {}
  /\ proc = [p \in Procs |-> Idle]
  /\ now = 0
  /\ job = NewLocationCleanupJob

FriendStep(p) ==
  \/ \E s \in Users, r \in Users \cup {Ghost} : SendFriendRequest(p, s, r)
  \/ SendCheckExisting(p)
  \/ SendCreate(p)
  \/ \E u \in Users, id \in 1..MaxRequests : AcceptFriendRequest(p, u, id)
  \/ AcceptTransaction(p)
  \/ \E u \in Users, id \in 1..MaxRequests : RejectFriendRequest(p, u, id)
  \/ RejectSave(p)
  \/ \E u \in Users, f \in Users : RemoveFriend(p, u, f)
  \/ RemoveDelete(p)
  \/ Return(p)

Next == \E p \in Procs : FriendStep(p)

Spec == Init /\ [][Next]_vars

\* ------------------------------------------------- friend graph: claims

\* the friendship rows of the unordered pair {a, b}
RowsOfPair(a, b) ==
  {f \in friendships : {f.user1, f.user2} = {a, b}}

\* C1: acceptRequest is all-or-nothing.  In every step a request turns
\* accepted only together with the insert of the friendship row of its pair,
\* and an accept that ends either has done both writes (answer ok) or has
\* left the request row and the friendships table as they were (answer error).
C1_AcceptAllOrNothing ==
  [][ /\ \A i \in RequestIds :
          (requests[i].status # FriendRequestStatusAccepted
             /\ requests'[i].status = FriendRequestStatusAccepted)
          => \E f \in friendships' \ friendships :
                <<f.user1, f.user2>> = Canon(requests'[i].sender, requests'[i].receiver)
      /\ \A p \in Procs :
          (proc[p].pc = "accept_tx" /\ proc'[p].pc = "done")
          => \/ /\ proc'[p].res = "ok"
                /\ requests'[proc[p].arg].status = FriendRequestStatusAccepted
                /\ \E f \in friendships' \ friendships :
                      <<f.user1, f.user2>> =
                        Canon(requests[proc[p].arg].sender, requests[proc[p].arg].receiver)
             \/ /\ proc'[p].res = "error"
                /\ requests' = requests
                /\ friendships' = friendships
    ]_vars

\* C1 witness: one accept has committed (request accepted, friendship row
\* present) and another accept, whose insert was refused, has ended with an
\* error and left its request pending
C1_Witness ==
  \E p \in Procs, i \in RequestIds :
     /\ proc[p].op = "accept" /\ proc[p].pc = "done" /\ proc[p].res = "error"
     /\ requests[proc[p].arg].status = FriendRequestStatusPending
     /\ i # proc[p].arg
     /\ requests[i].status = FriendRequestStatusAccepted
     /\ areFriends(requests[i].sender, requests[i].receiver)

\* C2: each unordered pair of users has at most one pending request,
\* counting both directions
C2_AtMostOnePendingPerPair ==
  \A a \in Users, b \in Users :
     Cardinality({i \in RequestIds :
                    /\ requests[i].status = FriendRequestStatusPending
                    /\ {requests[i].sender, requests[i].receiver} = {a, b}}) <= 1

\* C3: every friendship row has user1 < user2 and an unordered pair has at
\* most one row
C3_CanonicalUniqueFriendship ==
  /\ \A f \in friendships : f.user1 < f.user2
  /\ \A a \in Users, b \in Users : Cardinality(RowsOfPair(a, b)) <= 1

\* C3 witness: a request sent by the user with the larger id was accepted
\* (its row is stored swapped) and a concurrent second accept of the pair
\* was refused
C3_Witness ==
  \E p \in Procs, i \in RequestIds :
     /\ requests[i].sender > requests[i].receiver
     /\ requests[i].status = FriendRequestStatusAccepted
     /\ Cardinality(RowsOfPair(requests[i].sender, requests[i].receiver)) = 1
     /\ proc[p].op = "accept" /\ proc[p].pc = "done" /\ proc[p].res = "error"

\* a pending request exists between a and b, in either direction
PendingOfPair(a, b) ==
  \E i \in RequestIds :
     /\ requests[i].status = FriendRequestStatusPending
     /\ {requests[i].sender, requests[i].receiver} = {a, b}

\* worker p begins a call of operation op in this step
Begins(p, op) == proc[p].pc = "idle" /\ proc'[p].op = op

\* worker p is answered with r in this step
Answered(p, r) == proc'[p].pc = "done" /\ proc'[p].res = r

\* C15: the commit of an accept makes areFriends true for the sender and the
\* receiver in both orders; areFriends is true in both orders for every pair
\* that has a friendship row; and a send between two friends, in either
\* direction, is answered already-friends and creates no request
C15_FriendsBothWaysThenNoSend ==
  [][ /\ \A a \in Users, b \in Users :
           RowsOfPair(a, b) # {} => areFriends(a, b) /\ areFriends(b, a)
      /\ \A p \in Procs, a \in Users, b \in Users :
           (proc[p].pc = "accept_tx" /\ proc[p].tmp.sender = a
              /\ proc[p].tmp.receiver = b /\ Answered(p, "ok"))
           => areFriends(a, b)' /\ areFriends(b, a)'
      /\ \A p \in Procs, a \in Users, b \in Users :
           (Begins(p, "send") /\ proc'[p].user = a /\ proc'[p].arg = b
              /\ RowsOfPair(a, b) # {})
           => Answered(p, "already_friends") /\ requests' = requests
    ]_vars

\* C15 witness: the receiver of an accepted request, a friend of its
\* sender, has sent a request back and was answered already-friends
C15_Witness ==
  \E p \in Procs, i \in RequestIds :
     /\ requests[i].status = FriendRequestStatusAccepted
     /\ RowsOfPair(requests[i].sender, requests[i].receiver) # {}
     /\ proc[p].op = "send" /\ proc[p].pc = "done"
     /\ proc[p].user = requests[i].receiver /\ proc[p].arg = requests[i].sender
     /\ proc[p].user > proc[p].arg
     /\ proc[p].res = "already_friends"

\* C16: a send to oneself is answered self-reference; else a send between
\* friends is answered already-friends; else, at the lookup of the pending
\* request, a pending request of the pair in either direction is answered
\* duplicate-request; and a send that fails changes no request and no
\* friendship row
C16_SendErrorsInOrder ==
  [][ \A p \in Procs :
        /\ (Begins(p, "send") /\ proc'[p].user = proc'[p].arg)
             => Answered(p, "self_reference")
        /\ (Begins(p, "send") /\ proc'[p].user # proc'[p].arg
               /\ RowsOfPair(proc'[p].user, proc'[p].arg) # {})
             => Answered(p, "already_friends")
        /\ (proc[p].pc = "send_existing" /\ proc'[p] # proc[p]
               /\ PendingOfPair(proc[p].user, proc[p].arg))
             => Answered(p, "duplicate_request")
        /\ (proc'[p].op = "send" /\ proc'[p] # proc[p]
               /\ proc'[p].pc = "done" /\ proc'[p].res # "ok")
             => requests' = requests /\ friendships' = friendships
    ]_vars

\* C16 witness: a send was answered duplicate-request because of a pending
\* request in the opposite direction
C16_Witness ==
  \E p \in Procs, i \in RequestIds :
     /\ proc[p].op = "send" /\ proc[p].pc = "done"
     /\ proc[p].res = "duplicate_request"
     /\ requests[i].status = FriendRequestStatusPending
     /\ requests[i].sender = proc[p].arg /\ requests[i].receiver = proc[p].user
     /\ ~areFriends(proc[p].user, proc[p].arg)

\* the request id exists, is pending, and user u is its receiver
PendingForReceiver(id, u) ==
  /\ id \in RequestIds
  /\ requests[id].status = FriendRequestStatusPending
  /\ requests[id].receiver = u

\* C17: an accept or a reject of a request that does not exist, is not
\* pending, or whose receiver is not the caller is answered not-found and
\* changes no request and no friendship row
C17_AcceptRejectNeedPendingReceiver ==
  [][ \A p \in Procs :
        ((Begins(p, "accept") \/ Begins(p, "reject"))
           /\ ~PendingForReceiver(proc'[p].arg, proc'[p].user))
        => /\ Answered(p, "not_found")
           /\ requests' = requests /\ friendships' = friendships
    ]_vars

\* C17 witness: the sender of a pending request tried to accept it and was
\* answered not-found, and the request is still pending
C17_Witness ==
  \E p \in Procs, i \in RequestIds :
     /\ proc[p].op = "accept" /\ proc[p].pc = "done" /\ proc[p].arg = i
     /\ proc[p].res = "not_found"
     /\ requests[i].sender = proc[p].user
     /\ requests[i].status = FriendRequestStatusPending

\* C18: no step deletes a request row or changes its sender or receiver,
\* and the status of a row changes only from pending, to accepted or to
\* rejected
C18_RequestStatusMonotone ==
  [][ \A i \in RequestIds :
        /\ i <= Len(requests')
        /\ requests'[i].sender = requests[i].sender
        /\ requests'[i].receiver = requests[i].receiver
        /\ requests'[i].status # requests[i].status
             => /\ requests[i].status = FriendRequestStatusPending
                /\ requests'[i].status \in {FriendRequestStatusAccepted,
                                             FriendRequestStatusRejected}
    ]_vars

C24_AcceptRejectExclusive ==
  \A p \in Procs, q \in Procs :
     ~ /\ proc[p].op = "accept" /\ proc[p].pc = "done" /\ proc[p].res = "ok"
       /\ proc[q].op = "reject" /\ proc[q].pc = "done" /\ proc[q].res = "ok"
       /\ proc[p].arg = proc[q].arg
       /\ proc[p].arg \in RequestIds
       /\ requests[proc[p].arg].status = FriendRequestStatusRejected
       /\ RowsOfPair(requests[proc[p].arg].sender, requests[proc[p].arg].receiver) # {}

\* C26: at the insert of a send from a to b, when the pair has no
\* friendship row and no pending request and an accepted or rejected request
\* from a to b exists, the send is answered with success and one pending
\* row from a to b is added, the earlier rows being kept as they are
C26_HistoryNeverBlocksSend ==
  [][ \A p \in Procs :
        (/\ proc[p].pc = "send_create" /\ proc'[p] # proc[p]
         /\ RowsOfPair(proc[p].user, proc[p].arg) = {}
         /\ ~PendingOfPair(proc[p].user, proc[p].arg)
         /\ \E i \in RequestIds :
               /\ requests[i].sender = proc[p].user
               /\ requests[i].receiver = proc[p].arg
               /\ requests[i].status \in {FriendRequestStatusAccepted,
                                           FriendRequestStatusRejected})
        => /\ Answered(p, "ok")
           /\ requests' = Append(requests,
                  [sender |-> proc[p].user, receiver |-> proc[p].arg,
                   status |-> FriendRequestStatusPending])
    ]_vars

\* C27: no pair of users has a friendship row and a pending request, in
\* either direction, at the same time
C27_NoPendingBetweenFriends ==
  \A a \in Users, b \in Users :
     ~(RowsOfPair(a, b) # {} /\ PendingOfPair(a, b))

\* C28: for every friendship row there is an accepted request between its
\* two users
C28_FriendshipHasAcceptedRequest ==
  \A f \in friendships :
     \E i \in RequestIds :
        /\ requests[i].status = FriendRequestStatusAccepted
        /\ {requests[i].sender, requests[i].receiver} = {f.user1, f.user2}

\* --------------------------------------------- proximity math (service)

\* math.Round: to the nearest integer multiple of m, halves away from zero
RoundToMultiple(v, m) ==
  IF v >= 0 THEN ((v + m \div 2) \div m) * m
            ELSE -((((-v) + m \div 2) \div m) * m)

\* roundToDecimal(val, precision): math.Round(val * 10^precision) / 10^precision;
\* on 1e-4 degree fixed point that is rounding to a multiple of 10^(4 - precision)
roundToDecimal(val, precision) == RoundToMultiple(val, 10^(4 - precision))

\* the city case rounding to two decimals
applyAccuracyLevelCityTwoDecimals(lat, lng, level) ==
  CASE level = "precise" -> <<lat, lng>>
    [] level = "approximate" -> <<roundToDecimal(lat, 3), roundToDecimal(lng, 3)>>
    [] level = "city" -> <<roundToDecimal(lat, 2), roundToDecimal(lng, 2)>>
    [] OTHER -> <<lat, lng>>

\* applyAccuracyLevel, lines 183-198
applyAccuracyLevel(lat, lng, level) ==
  CASE level = "precise" -> <<lat, lng>>
    [] level = "approximate" -> <<roundToDecimal(lat, 3), roundToDecimal(lng, 3)>>
    [] level = "city" -> <<roundToDecimal(lat, 1), roundToDecimal(lng, 1)>>
    [] OTHER -> <<lat, lng>>

\* calculateDistance, lines 200-215, in tenths of a kilometre (the result is
\* rounded to one decimal).  Between two points of one meridian the haversine
\* formula reduces to earthRadius * |dLat| * pi/180 = 111.195 km per degree,
\* 0.111195 tenths of a km per 1e-4 degree; the model keeps every point on
\* one meridian (Lons) and defines the distance there only.
calculateDistance(lat1, lon1, lat2, lon2) ==
  LET d == IF lat2 >= lat1 THEN lat2 - lat1 ELSE lat1 - lat2
  IN CASE lon1 = lon2 -> (d * 111195 + 500000) \div 1000000

\* isValidLatitude / isValidLongitude, lines 223-231
isValidLatitude(lat) == lat >= -900000 /\ lat <= 900000
isValidLongitude(lng) == lng >= -1800000 /\ lng <= 1800000

\* ------------------------------------------- location repository: reads

HasRow(t, u) == t[u] # NoRow

\* friend ids read from the user1 side only (the OR of the query dropped)
getFriendIDsUser1Only(userID) ==
  {f.user2 : f \in {g \in friendships : g.user1 = userID}}

\* getFriendIDs, lines 99-114
getFriendIDs(userID) ==
  {f.user2 : f \in {g \in friendships : g.user1 = userID}} \cup
  {f.user1 : f \in {g \in friendships : g.user1 # userID /\ g.user2 = userID}}

\* the allow-list lookup of lines 87 and 206
IsAllowListed(ownerUserID, userID) == <<ownerUserID, userID>> \in allowed

\* the switch with the allow-list test of the custom case left out
VisibleBySettingsCustomOpen(owner, userID) ==
  IF ~HasRow(settings, owner) THEN TRUE
  ELSE settings[owner].mode \in {"all", "friends", "custom"}

\* the switch with the none case falling through to the append
VisibleBySettingsNoneShown(owner, userID) ==
  IF ~HasRow(settings, owner) THEN TRUE
  ELSE CASE settings[owner].mode = "custom" -> IsAllowListed(owner, userID)
         [] OTHER -> TRUE

\* the switch of GetVisibleLocations, lines 69-94, for one location owner
VisibleBySettings(owner, userID) ==
  IF ~HasRow(settings, owner) THEN TRUE
  ELSE CASE settings[owner].mode = "all" -> TRUE
         [] settings[owner].mode = "friends" -> TRUE
         [] settings[owner].mode = "custom" -> IsAllowListed(owner, userID)
         [] settings[owner].mode = "none" -> FALSE
         [] OTHER -> FALSE

\* the query of lines 62-64 without its is_online condition
GetVisibleLocationsAnyPresence(userID) ==
  LET friendIDs == getFriendIDs(userID)
      allLocations == {o \in friendIDs : HasRow(locations, o)}
  IN {o \in allLocations : VisibleBySettings(o, userID)}

\* GetVisibleLocations, lines 53-97: the owners whose location is returned
GetVisibleLocations(userID) ==
  LET friendIDs == getFriendIDs(userID)
      allLocations == {o \in friendIDs : HasRow(locations, o) /\ locations[o].isOnline}
  IN {o \in allLocations : VisibleBySettings(o, userID)}

\* r.areFriends, lines 215-224
repoAreFriends(user1ID, user2ID) ==
  LET c == Canon(user1ID, user2ID)
  IN \E f \in friendships : f.user1 = c[1] /\ f.user2 = c[2]

\* IsUserAllowedToSeeLocation, lines 185-213
IsUserAllowedToSeeLocation(ownerUserID, requestingUserID) ==
  IF ~repoAreFriends(ownerUserID, requestingUserID) THEN FALSE
  ELSE IF ~HasRow(settings, ownerUserID) THEN TRUE
  ELSE CASE settings[ownerUserID].mode = "all" -> TRUE
         [] settings[ownerUserID].mode = "friends" -> TRUE
         [] settings[ownerUserID].mode = "custom" ->
              IsAllowListed(ownerUserID, requestingUserID)
         [] settings[ownerUserID].mode = "none" -> FALSE
         [] OTHER -> FALSE

\* one entry of the locator response, lines 75-102: the distance is computed
\* from the two stored positions, then the owner's accuracy level is applied
\* to the coordinates that are returned
LocatorUser(id, currentLocation, loc, ownerSettings) ==
  LET adjusted == IF ownerSettings = NoRow
                    THEN <<loc.lat, loc.lon>>
                    ELSE applyAccuracyLevel(loc.lat, loc.lon, ownerSettings.level)
  IN [id |-> id, lat |-> adjusted[1], lon |-> adjusted[2],
      isAvailable |-> loc.isAvailable, status |-> loc.status,
      distance |-> calculateDistance(currentLocation.lat, currentLocation.lon,
                                     loc.lat, loc.lon)]

\* GetLocatorData, lines 55-109
GetLocatorData(userID) ==
  IF ~HasRow(locations, userID) THEN {}
  ELSE {LocatorUser(o, locations[userID], locations[o], settings[o]) :
          o \in GetVisibleLocations(userID)}

\* ------------------------------------------------ locator: write handlers

Modes == {"all", "friends", "custom", "none"}
Levels == {"precise", "approximate", "city"}

\* the row built with is_online left at its zero value
NewLocationOffline(req) ==
  LET adjusted == applyAccuracyLevel(req.lat, req.lon, req.level)
  IN [lat |-> adjusted[1], lon |-> adjusted[2],
      isAvailable |-> (req.avail # "false"),
      isOnline |-> FALSE, lastSeen |-> now, status |-> req.status,
      updatedAt |-> now]

\* the row built from the coordinates of the request as they were sent
NewLocationVerbatim(req) ==
  [lat |-> req.lat, lon |-> req.lon,
   isAvailable |-> (req.avail # "false"),
   isOnline |-> TRUE, lastSeen |-> now, status |-> req.status,
   updatedAt |-> now]

\* the row that UpdateLocation builds, lines 29-50: the accuracy level of the
\* request is applied to the coordinates before they are stored
NewLocation(req) ==
  LET adjusted == applyAccuracyLevel(req.lat, req.lon, req.level)
  IN [lat |-> adjusted[1], lon |-> adjusted[2],
      isAvailable |-> (req.avail # "false"),
      isOnline |-> TRUE, lastSeen |-> now, status |-> req.status,
      updatedAt |-> now]

\* UpdateLocation of the controller (lines 46-63: latitude and longitude are
\* binding:"required", which refuses the zero value) and of the service
\* (lines 23-27), then the lookup of UpdateUserLocation (lines 20-21)
UpdateLocation(p, userID, req) ==
  /\ proc[p].pc = "idle"
  /\ LET call == [Idle EXCEPT !.op = "location", !.user = userID, !.arg = req]
     IN proc' = [proc EXCEPT ![p] =
          IF req.lat = 0 \/ req.lon = 0
            THEN [call EXCEPT !.pc = "done", !.res = "bad_request"]
          ELSE IF ~isValidLatitude(req.lat) \/ ~isValidLongitude(req.lon)
            THEN [call EXCEPT !.pc = "done", !.res = "invalid_coordinates"]
          ELSE [call EXCEPT !.pc = "loc_write",
                            !.tmp = [found |-> HasRow(locations, userID),
                                     location |-> NewLocation(req)]]]
  /\ UNCHANGED <<friendVars, locVars, jobVars>>

\* user_locations without the unique index on user_id
UkUserLocationsMissing(u) == FALSE

\* a user_locations row with this user_id exists already (uniqueIndex on
\* UserID, models/location.go line 11): the insert would be refused
UkUserLocationsViolated(u) == userLocationRows[u] > 0

\* UpdateUserLocation, lines 23-39: Create when no row was found (user_id is
\* a unique index; a zero is_available takes the column default, true), else
\* Updates of the row that was found
UpdateUserLocation(p) ==
  /\ proc[p].pc = "loc_write"
  /\ LET u == proc[p].user
         location == proc[p].tmp.location
     IN IF ~proc[p].tmp.found
          THEN IF UkUserLocationsViolated(u)
                 THEN /\ UNCHANGED <<locations, userLocationRows>>
                      /\ Finish(p, "error")
                 ELSE /\ locations' = [locations EXCEPT ![u] =
                            IF HasRow(locations, u) THEN @
                            ELSE [location EXCEPT !.isAvailable = TRUE]]
                      /\ userLocationRows' = [userLocationRows EXCEPT ![u] = @ + 1]
                      /\ Finish(p, "ok")
          ELSE /\ locations' = [locations EXCEPT ![u] =
                     [@ EXCEPT !.lat = location.lat, !.lon = location.lon,
                               !.isAvailable = location.isAvailable,
                               !.isOnline = location.isOnline,
                               !.lastSeen = location.lastSeen,
                               !.status = location.status,
                               !.updatedAt = now]]
               /\ UNCHANGED userLocationRows
               /\ Finish(p, "ok")
  /\ UNCHANGED <<friendVars, settings, allowed, jobVars>>

\* the controller test comparing the list with nil instead of its length
CustomWithNilAllowedUsers(req) ==
  req.mode = "custom" /\ req.allowedIds.isNil

\* locator_controller.go line 94: custom mode needs at least one allowed user
CustomWithoutAllowedUsers(req) ==
  req.mode = "custom" /\ Cardinality(req.allowedIds.ids) = 0

\* UpdateVisibility of the controller (lines 81-99), the validation of the
\* service (lines 113-123) and the lookup of the repository (lines 130-131)
UpdateVisibility(p, userID, req) ==
  /\ proc[p].pc = "idle"
  /\ LET call == [Idle EXCEPT !.op = "visibility", !.user = userID, !.arg = req]
     IN proc' = [proc EXCEPT ![p] =
          IF req.mode \notin Modes \/ req.level \notin Levels
            THEN [call EXCEPT !.pc = "done", !.res = "bad_request"]
          ELSE IF CustomWithoutAllowedUsers(req)
            THEN [call EXCEPT !.pc = "done", !.res = "bad_request"]
          ELSE [call EXCEPT !.pc = "vis_write", !.tmp = HasRow(settings, userID)]]
  /\ UNCHANGED <<friendVars, locVars, jobVars>>

\* repository UpdateVisibilitySettings, lines 133-144, and the test of the
\* service at line 138 that decides whether the allow-list is written
UpdateVisibilitySettings(p) ==
  /\ proc[p].pc = "vis_write"
  /\ LET u == proc[p].user
         req == proc[p].arg
         row == [mode |-> req.mode, level |-> req.level]
     IN IF ~proc[p].tmp /\ HasRow(settings, u)
          THEN /\ UNCHANGED settings
               /\ Finish(p, "error")
          ELSE /\ settings' = [settings EXCEPT ![u] = row]
               /\ IF req.mode = "custom" /\ ~req.allowedIds.isNil
                    THEN proc' = [proc EXCEPT ![p].pc = "vis_allowed"]
                    ELSE Finish(p, "ok")
  /\ UNCHANGED <<friendVars, locations, userLocationRows, allowed, jobVars>>

\* the delete of SetAllowedUsers committed without the inserts
SetAllowedUsersDeleteOnly(p) ==
  /\ proc[p].pc = "vis_allowed"
  /\ allowed' = {a \in allowed : a[1] # proc[p].user}
  /\ Finish(p, "ok")
  /\ UNCHANGED <<friendVars, locations, userLocationRows, settings, jobVars>>

\* SetAllowedUsers, lines 147-167: delete all rows of the owner and insert
\* the new ones, in one transaction
SetAllowedUsers(p) ==
  /\ proc[p].pc = "vis_allowed"
  /\ LET u == proc[p].user
     IN allowed' = {a \in allowed : a[1] # u} \cup
                   {<<u, v>> : v \in proc[p].arg.allowedIds.ids}
  /\ Finish(p, "ok")
  /\ UNCHANGED <<friendVars, locations, userLocationRows, settings, jobVars>>

\* GetLocator, controller lines 30-42
GetLocator(p, userID) ==
  /\ proc[p].pc = "idle"
  /\ proc' = [proc EXCEPT ![p] =
        [Idle EXCEPT !.op = "locator", !.user = userID, !.pc = "done",
                     !.res = "ok", !.out = GetLocatorData(userID)]]
  /\ UNCHANGED <<friendVars, locVars, jobVars>>

\* IsUserAllowedToSeeLocation as a request of viewer userID about an owner,
\* one step per query: the friendship lookup (lines 187-190), ...
CanView(p, ownerUserID, userID) ==
  /\ proc[p].pc = "idle"
  /\ LET call == [Idle EXCEPT !.op = "canview", !.user = userID, !.arg = ownerUserID]
     IN proc' = [proc EXCEPT ![p] =
          IF ~repoAreFriends(ownerUserID, userID)
            THEN [call EXCEPT !.pc = "done", !.res = "denied"]
            ELSE [call EXCEPT !.pc = "view_settings"]]
  /\ UNCHANGED <<friendVars, locVars, jobVars>>

\* ... the settings lookup and the switch on the mode (lines 192-212), ...
CanViewSettings(p) ==
  /\ proc[p].pc = "view_settings"
  /\ LET o == proc[p].arg
     IN IF ~HasRow(settings, o) THEN Finish(p, "allowed")
        ELSE CASE settings[o].mode \in {"all", "friends"} -> Finish(p, "allowed")
               [] settings[o].mode = "custom" ->
                    proc' = [proc EXCEPT ![p].pc = "view_allowed"]
               [] OTHER -> Finish(p, "denied")
  /\ UNCHANGED <<friendVars, locVars, jobVars>>

\* ... and the allow-list lookup of the custom case (lines 205-207)
CanViewAllowed(p) ==
  /\ proc[p].pc = "view_allowed"
  /\ Finish(p, IF IsAllowListed(proc[p].arg, proc[p].user) THEN "allowed" ELSE "denied")
  /\ UNCHANGED <<friendVars, locVars, jobVars>>

\* ------------------------------------------------ visibility policy spec
\* One worker, so that every handler runs to its end before the next starts:
\* friend graph, settings, one fixed position per user, and the locator.

AllowLists ==
  {[isNil |-> TRUE, ids |-> {}]} \cup {[isNil |-> FALSE, ids |-> S] : S \in SUBSET Users}

VisLocationRequests ==
  {[lat |-> 470004, lon |-> 190000, level |-> "", avail |-> "nil", status |-> "riding"]}

VisVisibilityRequests == [mode : Modes, level : {"precise"}, allowedIds : AllowLists]

LocatorStep(p, locationRequests, visibilityRequests) ==
  \/ \E u \in Users, req \in locationRequests : UpdateLocation(p, u, req)
  \/ UpdateUserLocation(p)
  \/ \E u \in Users, req \in visibilityRequests : UpdateVisibility(p, u, req)
  \/ UpdateVisibilitySettings(p)
  \/ SetAllowedUsers(p)
  \/ \E u \in Users : GetLocator(p, u)

NextVis ==
  \/ FriendStep(1)
  \/ LocatorStep(1, VisLocationRequests, VisVisibilityRequests)

SpecVis == Init /\ [][NextVis]_vars

\* ---------------------------------------------- visibility policy: claims

Online(o) == HasRow(locations, o) /\ locations[o].isOnline

\* the visibility mode in force for an owner: a missing row is "friends"
ModeOf(o) == IF HasRow(settings, o) THEN settings[o].mode ELSE "friends"

\* the users that GET locator returns to a viewer
LocatorIds(viewer) == {e.id : e \in GetLocatorData(viewer)}

\* worker p has just answered GET locator for viewer
LocatorAnswered(p, viewer) ==
  proc[p].op = "locator" /\ proc[p].pc = "done" /\ proc[p].user = viewer

\* C4: an online owner with mode all is returned to every other viewer that
\* has a presence row, friends or not
C4_AllModeVisibleToEveryViewer ==
  \A o \in Users, v \in Users :
     (o # v /\ Online(o) /\ HasRow(settings, o) /\ settings[o].mode = "all"
        /\ HasRow(locations, v))
     => o \in LocatorIds(v)

\* C5 as stated: under mode custom a viewer may see the owner iff the viewer
\* is in the owner's allow-list, friend or not
C5_CustomAllowListAlone ==
  \A o \in Users, v \in Users :
     (o # v /\ HasRow(settings, o) /\ settings[o].mode = "custom")
     => /\ IsUserAllowedToSeeLocation(o, v) <=> IsAllowListed(o, v)
        /\ (Online(o) /\ HasRow(locations, v))
             => (o \in LocatorIds(v) <=> IsAllowListed(o, v))

\* C5 amended: under mode custom a viewer may see the owner iff the viewer
\* is in the owner's allow-list and has a friendship row with the owner
C5_CustomNeedsFriendship ==
  \A o \in Users, v \in Users :
     (o # v /\ HasRow(settings, o) /\ settings[o].mode = "custom")
     => /\ IsUserAllowedToSeeLocation(o, v)
             <=> (IsAllowListed(o, v) /\ RowsOfPair(o, v) # {})
        /\ (Online(o) /\ HasRow(locations, v))
             => (o \in LocatorIds(v)
                   <=> (IsAllowListed(o, v) /\ RowsOfPair(o, v) # {}))

\* C5 witness: an allow-listed viewer who is not a friend of an online
\* custom-mode owner has read the locator and was not shown the owner
C5_Witness ==
  \E o \in Users, v \in Users :
     /\ o # v /\ Online(o) /\ HasRow(locations, v)
     /\ HasRow(settings, o) /\ settings[o].mode = "custom"
     /\ IsAllowListed(o, v) /\ RowsOfPair(o, v) = {}
     /\ LocatorAnswered(1, v) /\ proc[1].out = {}

\* C6: while an owner's mode is none no viewer may see the owner: not
\* through IsUserAllowedToSeeLocation, not in the locator
C6_NoneHidesOwner ==
  \A o \in Users, v \in Users :
     (o # v /\ HasRow(settings, o) /\ settings[o].mode = "none")
     => /\ ~IsUserAllowedToSeeLocation(o, v)
        /\ o \notin LocatorIds(v)

\* C6 witness: the owner is online with mode none, the viewer is a friend,
\* is still in the allow-list of an earlier custom setting, has a presence
\* row, and has just read the locator
C6_Witness ==
  \E o \in Users, v \in Users :
     /\ o # v /\ Online(o) /\ HasRow(locations, v)
     /\ HasRow(settings, o) /\ settings[o].mode = "none"
     /\ IsAllowListed(o, v) /\ RowsOfPair(o, v) # {}
     /\ LocatorAnswered(1, v) /\ proc[1].out = {}

\* C7 as stated: an online owner with mode friends is returned to a viewer
\* iff the two have a friendship row
C7_FriendsModeIffFriendship ==
  \A o \in Users, v \in Users :
     (o # v /\ Online(o) /\ ModeOf(o) = "friends")
     => (o \in LocatorIds(v) <=> RowsOfPair(o, v) # {})

\* C7 amended: the same for a viewer that has a presence row
C7_FriendsModeIffFriendshipWithPresence ==
  \A o \in Users, v \in Users :
     (o # v /\ Online(o) /\ ModeOf(o) = "friends" /\ HasRow(locations, v))
     => (o \in LocatorIds(v) <=> RowsOfPair(o, v) # {})

\* C7 witness: the request of the pair is accepted but the friendship row
\* has been removed; the viewer, who has a presence row, has read the
\* locator and the online friends-mode owner was not returned
C7_Witness ==
  \E o \in Users, v \in Users, i \in RequestIds :
     /\ o # v /\ Online(o) /\ HasRow(locations, v)
     /\ HasRow(settings, o) /\ settings[o].mode = "friends"
     /\ {requests[i].sender, requests[i].receiver} = {o, v}
     /\ requests[i].status = FriendRequestStatusAccepted
     /\ RowsOfPair(o, v) = {}
     /\ LocatorAnswered(1, v) /\ proc[1].out = {}

\* the allow-list rows of an owner
AllowedRowsOf(u) == {a \in allowed : a[1] = u}

\* C10: a visibility update with mode custom and an empty or missing
\* allow-list is answered with a bad request, and no step of that call
\* changes the caller's settings row or allow-list rows
C10_CustomWithoutListRefused ==
  [][ \A p \in Procs :
        (proc'[p] # proc[p] /\ proc'[p].op = "visibility"
           /\ proc'[p].arg.mode = "custom" /\ proc'[p].arg.allowedIds.ids = {})
        => /\ proc'[p].pc = "done" /\ proc'[p].res = "bad_request"
           /\ settings'[proc'[p].user] = settings[proc'[p].user]
           /\ {a \in allowed' : a[1] = proc'[p].user}
                = AllowedRowsOf(proc'[p].user)
    ]_vars

\* C10 witness: a user with a settings row and allow-list rows has asked for
\* custom with an empty list and was refused
C10_Witness ==
  \E u \in Users :
     /\ proc[1].op = "visibility" /\ proc[1].pc = "done" /\ proc[1].user = u
     /\ proc[1].arg.mode = "custom" /\ ~proc[1].arg.allowedIds.isNil
     /\ proc[1].arg.allowedIds.ids = {}
     /\ proc[1].res = "bad_request"
     /\ HasRow(settings, u) /\ settings[u].mode = "all"
     /\ AllowedRowsOf(u) # {}

\* ------------------------------------------------------- accuracy spec
\* applyAccuracyLevel applied to a coordinate pair and again to its result,
\* for coordinates of both signs, on and next to the rounding halves and at
\* the limits of the ranges.

DegradeLats == {-899996, -470050, -5, 4, 5, 469996, 470450, 470500, 899999}
DegradeLons == {-1799996, 190004, 190050, 1799950}

InitDegrade ==
  /\ requests = <<>>
  /\ friendships = {}
  /\ friendshipSeq = 0
  /\ locations = [u \in Users |-> NoRow]
  /\ userLocationRows = [u \in Users |-> 0]
  /\ settings = [u \in Users |-> NoRow]
  /\ allowed = {}
  /\ \E lat \in DegradeLats, lng \in DegradeLons, level \in Levels :
        proc = [p \in Procs |->
                  IF p = 1 THEN [Idle EXCEPT !.op = "degrade", !.pc = "input",
                                             !.arg = <<lat, lng, level>>]
                  ELSE Idle]
  /\ now = 0
  /\ job = NewLocationCleanupJob

\* applyAccuracyLevel on the input
DegradeOnce ==
  /\ proc[1].pc = "input"
  /\ LET a == proc[1].arg
     IN proc' = [proc EXCEPT ![1].pc = "once",
                             ![1].out = applyAccuracyLevel(a[1], a[2], a[3])]
  /\ UNCHANGED <<friendVars, locVars, jobVars>>

\* applyAccuracyLevel on the result of the first application
DegradeAgain ==
  /\ proc[1].pc = "once"
  /\ LET a == proc[1].arg
         r == proc[1].out
     IN proc' = [proc EXCEPT ![1].pc = "twice", ![1].tmp = r,
                             ![1].out = applyAccuracyLevel(r[1], r[2], a[3])]
  /\ UNCHANGED <<friendVars, locVars, jobVars>>

NextDegrade == DegradeOnce \/ DegradeAgain

SpecDegrade == InitDegrade /\ [][NextDegrade]_vars

\* r is the multiple of m nearest to v
NearestMultiple(r, v, m) ==
  r % m = 0 /\ 2 * (r - v) <= m /\ 2 * (v - r) <= m

\* C23: degrading twice gives what degrading once gives, for every tier;
\* precise returns the input, approximate the nearest value with 3 decimals,
\* city the nearest value with 1 decimal
C23_DegradeIdempotent ==
  /\ proc[1].pc = "twice" => proc[1].out = proc[1].tmp
  /\ proc[1].pc \in {"once", "twice"}
       => LET a == proc[1].arg
              r == proc[1].out
          IN /\ a[3] = "precise" => r = <<a[1], a[2]>>
             /\ a[3] = "approximate"
                  => NearestMultiple(r[1], a[1], 10) /\ NearestMultiple(r[2], a[2], 10)
             /\ a[3] = "city"
                  => NearestMultiple(r[1], a[1], 1000) /\ NearestMultiple(r[2], a[2], 1000)

\* C23 witness: a negative latitude next to a rounding half was degraded to
\* city twice, and the result differs from the input
C23_Witness ==
  /\ proc[1].op = "degrade" /\ proc[1].pc = "twice"
  /\ proc[1].arg = <<-470050, 190050, "city">>
  /\ proc[1].out = <<-470000, 190000>>

\* -------------------------------------------------- stored settings spec
\* The read paths for every settings row the table can hold: both columns
\* are plain strings, so a row written outside the API may carry any mode
\* and any level.  User 1 starts with such a row; one worker makes users 1
\* and 2 friends, posts positions and reads.

StoredSettingsRows ==
  [mode : Modes \cup {"everyone"}, level : Levels \cup {"exact"}]

InitStored ==
  /\ requests = <<>>
  /\ friendships = {}
  /\ friendshipSeq = 0
  /\ locations = [u \in Users |-> NoRow]
  /\ userLocationRows = [u \in Users |-> 0]
  /\ \E row \in StoredSettingsRows :
        settings = [u \in Users |-> IF u = 1 THEN row ELSE NoRow]
  /\ allowed = {}
  /\ proc = [p \in Procs |-> Idle]
  /\ now = 0
  /\ job = NewLocationCleanupJob

StoredLocationRequests ==
  {[lat |-> 469996, lon |-> 190004, level |-> "", avail |-> "nil", status |-> "riding"]}

NextStored ==
  \/ SendFriendRequest(1, 1, 2)
  \/ SendCheckExisting(1)
  \/ SendCreate(1)
  \/ AcceptFriendRequest(1, 2, 1)
  \/ AcceptTransaction(1)
  \/ \E u \in Users, req \in StoredLocationRequests : UpdateLocation(1, u, req)
  \/ UpdateUserLocation(1)
  \/ \E u \in Users : GetLocator(1, u)
  \/ \E o \in Users, v \in Users : CanView(1, o, v)
  \/ CanViewSettings(1)
  \/ CanViewAllowed(1)
  \/ Return(1)

SpecStored == InitStored /\ [][NextStored]_vars

\* C21: an owner whose stored mode is outside all/friends/custom/none is
\* seen as an owner with mode friends (by friends, by nobody else), and an
\* owner whose stored level is outside precise/approximate/city is shown
\* with the stored coordinates
C21_MalformedAsFriendsPrecise ==
  \A o \in Users, v \in Users :
     (o # v /\ HasRow(settings, o))
     => /\ settings[o].mode \notin {"all", "friends", "custom", "none"}
            => /\ IsUserAllowedToSeeLocation(o, v) <=> RowsOfPair(o, v) # {}
               /\ (Online(o) /\ HasRow(locations, v))
                    => (o \in LocatorIds(v) <=> RowsOfPair(o, v) # {})
        /\ settings[o].level \notin {"precise", "approximate", "city"}
            => \A e \in GetLocatorData(v) :
                  e.id = o => e.lat = locations[o].lat /\ e.lon = locations[o].lon

\* ------------------------------------------------- location cleanup job

\* CleanupInactiveLocations, part_015 line 236: 15 minutes
CleanupAge == 15

\* the clock stops at MaxTime; it moves in steps of 5 or 10 minutes
MaxTime == 30
TimeSteps == {5, 10}

AdvanceClock ==
  /\ \E d \in TimeSteps : now + d <= MaxTime /\ now' = now + d
  /\ UNCHANGED <<friendVars, locVars, proc, job>>

\* the UPDATE of CleanupOldLocations with no WHERE on updated_at
CleanupOldLocationsAll(olderThan) ==
  [u \in Users |->
     IF HasRow(locations, u)
       THEN [locations[u] EXCEPT !.isOnline = FALSE, !.isAvailable = FALSE,
                                 !.updatedAt = now]
       ELSE locations[u]]

\* CleanupOldLocations, part_013 lines 227-235: the user_locations table
\* after the UPDATE (gorm sets updated_at of the rows it updates)
CleanupOldLocations(olderThan) ==
  [u \in Users |->
     IF HasRow(locations, u) /\ locations[u].updatedAt < now - olderThan
       THEN [locations[u] EXCEPT !.isOnline = FALSE, !.isAvailable = FALSE,
                                 !.updatedAt = now]
       ELSE locations[u]]

\* Start, lines 34-52: the goroutine begins with a cleanup
Start ==
  /\ job.loop = "new"
  /\ job' = [job EXCEPT !.loop = "cleanup"]
  /\ UNCHANGED <<friendVars, locVars, proc, now>>

\* the runtime puts a tick into the one-slot channel of the running ticker
TickerFire ==
  /\ job.tickerOn /\ ~job.tickC
  /\ job' = [job EXCEPT !.tickC = TRUE]
  /\ UNCHANGED <<friendVars, locVars, proc, now>>

\* select, case <-j.ticker.C (lines 44-45)
TickReceive ==
  /\ job.loop = "select" /\ job.tickC
  /\ job' = [job EXCEPT !.loop = "cleanup", !.tickC = FALSE]
  /\ UNCHANGED <<friendVars, locVars, proc, now>>

\* cleanup, lines 61-71, with CleanupInactiveLocations (part_015 234-237)
cleanup ==
  /\ job.loop = "cleanup"
  /\ locations' = CleanupOldLocations(CleanupAge)
  /\ job' = [job EXCEPT !.loop = "select"]
  /\ UNCHANGED <<friendVars, userLocationRows, settings, allowed, proc, now>>

\* Stop, lines 55-57: the ticker is stopped and the send on done begins;
\* Stop can be called again once an earlier call has returned
Stop ==
  /\ job.stop \in {"none", "returned"}
  /\ job' = [job EXCEPT !.tickerOn = FALSE, !.stop = "sending"]
  /\ UNCHANGED <<friendVars, locVars, proc, now>>

\* the send on done completing with no receiver, as on a buffered channel
StopSendBuffered ==
  /\ job.stop = "sending"
  /\ job' = [job EXCEPT !.stop = "returned"]
  /\ UNCHANGED <<friendVars, locVars, proc, now>>

\* the send of Stop (line 57) meets the receive of the select (lines 46-48):
\* done is unbuffered, so Stop returns when the goroutine takes the value
StopSend ==
  /\ job.stop = "sending" /\ job.loop = "select"
  /\ job' = [job EXCEPT !.stop = "returned", !.loop = "exited"]
  /\ UNCHANGED <<friendVars, locVars, proc, now>>

\* One worker posting locations, the clock, and the cleanup job.
SweepLocationRequests ==
  [lat : {470004}, lon : {190000}, level : {""}, avail : {"nil", "false"},
   status : {"riding"}]

NextSweep ==
  \/ AdvanceClock
  \/ Start
  \/ TickerFire
  \/ TickReceive
  \/ cleanup
  \/ Stop
  \/ StopSend
  \/ \E u \in Users, req \in SweepLocationRequests : UpdateLocation(1, u, req)
  \/ UpdateUserLocation(1)
  \/ Return(1)

SpecSweep == Init /\ [][NextSweep]_vars

\* The job alone with one worker posting locations, the clock standing
\* still.  The goroutine, once started, runs on: a cleanup that has begun
\* ends, and a select with a ready case takes one.  Nothing makes the
\* application call Start.
NextStop ==
  \/ Start
  \/ TickerFire
  \/ TickReceive
  \/ cleanup
  \/ Stop
  \/ StopSend
  \/ \E u \in Users, req \in SweepLocationRequests : UpdateLocation(1, u, req)
  \/ UpdateUserLocation(1)
  \/ Return(1)

SpecStop ==
  /\ Init /\ [][NextStop]_vars
  /\ WF_vars(cleanup) /\ WF_vars(TickReceive) /\ WF_vars(StopSend)

\* C29: every call of Stop returns, whether the job was started or not and
\* whether or not an earlier Stop has made the loop exit
C29_StopAlwaysReturns ==
  (job.stop = "sending") ~> (job.stop = "returned")

\* C25: when a location update of u completes with success the row of u is
\* online and its last-seen time is the time the update took from the clock,
\* whether the row was online or offline before; and a tick sets an online
\* row offline only when more than CleanupAge has passed since that time
C25_PresenceSelfHeals ==
  [][ /\ \A u \in Users :
           (proc[1].pc = "loc_write" /\ proc[1].user = u /\ Answered(1, "ok"))
           => /\ locations'[u] # NoRow
              /\ locations'[u].isOnline
              /\ locations'[u].lastSeen = proc[1].tmp.location.lastSeen
              /\ locations'[u].lastSeen <= now
              /\ locations'[u].updatedAt >= locations'[u].lastSeen
      /\ \A u \in Users :
           (job.loop = "cleanup" /\ job'.loop = "select"
              /\ HasRow(locations, u) /\ locations[u].isOnline
              /\ ~locations'[u].isOnline)
           => locations[u].lastSeen < now - CleanupAge
    ]_vars

\* C25 witness: the update of u has completed, CleanupAge has passed since,
\* and the tick that has just set another user offline has left u online
C25_Witness ==
  \E u \in Users, v \in Users :
     /\ proc[1].op = "location" /\ proc[1].pc = "done" /\ proc[1].res = "ok"
     /\ proc[1].user = u
     /\ job.loop = "select"
     /\ HasRow(locations, u) /\ locations[u].isOnline
     /\ locations[u].lastSeen = now - CleanupAge
     /\ HasRow(locations, v) /\ ~locations[v].isOnline
     /\ locations[v].updatedAt = now

\* Friends 1 and 2, location updates, the clock, the running cleanup job
\* and the locator.
NextOnline ==
  \/ SendFriendRequest(1, 1, 2)
  \/ SendCheckExisting(1)
  \/ SendCreate(1)
  \/ AcceptFriendRequest(1, 2, 1)
  \/ AcceptTransaction(1)
  \/ AdvanceClock
  \/ Start
  \/ TickerFire
  \/ TickReceive
  \/ cleanup
  \/ \E u \in Users, req \in SweepLocationRequests : UpdateLocation(1, u, req)
  \/ UpdateUserLocation(1)
  \/ \E u \in Users : GetLocator(1, u)
  \/ Return(1)

SpecOnline == Init /\ [][NextOnline]_vars

\* C22: every entry of a locator answer is a user other than the viewer
\* whose row is online when the answer is read, so a user that a tick has
\* set offline is in no answer until a location update sets it online again
C22_LocatorEntriesOnline ==
  [][ \A v \in Users :
        (proc[1].pc = "idle" /\ proc'[1].op = "locator" /\ proc'[1].pc = "done"
           /\ proc'[1].user = v)
        => \A e \in proc'[1].out :
              /\ e.id # v
              /\ HasRow(locations, e.id) /\ locations[e.id].isOnline
    ]_vars

\* C22 witness: an online viewer has got an empty answer while its friend's
\* row, set offline by a tick, is still offline
C22_Witness ==
  \E o \in Users, v \in Users :
     /\ o # v /\ RowsOfPair(o, v) # {}
     /\ HasRow(locations, o) /\ ~locations[o].isOnline
     /\ locations[o].lastSeen < locations[o].updatedAt - CleanupAge
     /\ Online(v)
     /\ LocatorAnswered(1, v) /\ proc[1].out = {}

\* the row of u is online and was last written more than CleanupAge ago
Stale(u) ==
  HasRow(locations, u) /\ locations[u].isOnline
    /\ locations[u].updatedAt < now - CleanupAge

PresenceLocationRequests ==
  [lat : {470004, 470400}, lon : {190000}, level : {""}, avail : {"nil"},
   status : {"riding"}]

NextPresence ==
  \E p \in Procs :
     \/ \E u \in Users, req \in PresenceLocationRequests : UpdateLocation(p, u, req)
     \/ UpdateUserLocation(p)
     \/ Return(p)

SpecPresence == Init /\ [][NextPresence]_vars

\* C14: no user ever has more than one user_locations row, and the row
\* found by user_id exists exactly when there is one
C14_OnePresenceRowPerUser ==
  \A u \in Users :
     /\ userLocationRows[u] <= 1
     /\ HasRow(locations, u) <=> userLocationRows[u] = 1

\* C14 witness: two concurrent first updates of one user both found no
\* row; one has created the row, the insert of the other was refused
C14_Witness ==
  \E p \in Procs, q \in Procs, u \in Users :
     /\ p # q
     /\ proc[p].op = "location" /\ proc[p].user = u /\ proc[p].pc = "done"
     /\ proc[p].res = "ok"
     /\ proc[q].op = "location" /\ proc[q].user = u /\ proc[q].pc = "done"
     /\ proc[q].res = "error"
     /\ userLocationRows[u] = 1

\* ---------------------------------------------------- coordinate ranges
\* One worker posting coordinates at, inside and outside the limits.

RangeLats == {-900001, -900000, 0, 470004, 900000, 900001}
RangeLons == {-1800001, -1800000, 0, 190000, 1800000, 1800001}

RangeLocationRequests ==
  [lat : RangeLats, lon : RangeLons, level : {""}, avail : {"nil"},
   status : {"riding"}]

NextRange ==
  \/ \E u \in Users, req \in RangeLocationRequests : UpdateLocation(1, u, req)
  \/ UpdateUserLocation(1)
  \/ Return(1)

SpecRange == Init /\ [][NextRange]_vars

\* latitude within [-90, 90] and longitude within [-180, 180]
InRange(req) ==
  /\ -900000 <= req.lat /\ req.lat <= 900000
  /\ -1800000 <= req.lon /\ req.lon <= 1800000

\* C20: a location update that has been answered was accepted iff its
\* coordinates are in range, zero included, and was otherwise refused as
\* invalid coordinates
C20_AcceptedIffInRange ==
  (proc[1].op = "location" /\ proc[1].pc = "done")
  => /\ proc[1].res = "ok" <=> InRange(proc[1].arg)
     /\ ~InRange(proc[1].arg) => proc[1].res = "invalid_coordinates"

\* ------------------------------------------------------ allow-list spec
\* Two workers: settings updates of every user run concurrently with each
\* other and with IsUserAllowedToSeeLocation; worker 1 also makes users 1
\* and 2 friends, so that the readers get as far as the allow-list.

AllowVisibilityRequests ==
  [mode : {"friends", "custom"}, level : {"precise"}, allowedIds : AllowLists]

NextAllow ==
  \/ SendFriendRequest(1, 1, 2)
  \/ SendCheckExisting(1)
  \/ SendCreate(1)
  \/ AcceptFriendRequest(1, 2, 1)
  \/ AcceptTransaction(1)
  \/ \E p \in Procs :
        \/ \E u \in Users, req \in AllowVisibilityRequests : UpdateVisibility(p, u, req)
        \/ UpdateVisibilitySettings(p)
        \/ SetAllowedUsers(p)
        \/ \E o \in Users, v \in Users : CanView(p, o, v)
        \/ CanViewSettings(p)
        \/ CanViewAllowed(p)
        \/ Return(p)

SpecAllow == Init /\ [][NextAllow]_vars

\* the members of an owner's allow-list
AllowListOf(u) == {a[2] : a \in AllowedRowsOf(u)}

\* C11: every step that changes an owner's allow-list is the commit of a
\* settings update of that owner and leaves the list equal to exactly the
\* list of that request, and every settings update with a list that ends
\* successfully leaves exactly its list; so a reader, whose lookup falls
\* between two steps, finds the list as before or exactly the new list
C11_AllowListReplacedAtomically ==
  [][ /\ \A u \in Users :
           {a[2] : a \in {b \in allowed' : b[1] = u}} # AllowListOf(u)
           => \E p \in Procs :
                /\ proc[p].pc = "vis_allowed" /\ proc[p].user = u
                /\ proc'[p].pc = "done" /\ proc'[p].res = "ok"
                /\ {a[2] : a \in {b \in allowed' : b[1] = u}} = proc[p].arg.allowedIds.ids
      /\ \A p \in Procs :
           (proc[p].pc = "vis_allowed" /\ proc'[p].pc = "done")
           => {a[2] : a \in {b \in allowed' : b[1] = proc[p].user}}
                = proc[p].arg.allowedIds.ids
    ]_vars

\* C11 witness: a settings update of owner o has replaced the list by {2}
\* while the other worker, asking for viewer 2, is between its settings
\* lookup (mode custom) and its allow-list lookup
C11_Witness ==
  \E p \in Procs, q \in Procs, o \in Users :
     /\ p # q /\ o # 2
     /\ proc[p].op = "visibility" /\ proc[p].pc = "done" /\ proc[p].res = "ok"
     /\ proc[p].user = o /\ proc[p].arg.mode = "custom"
     /\ proc[p].arg.allowedIds.ids = {2}
     /\ AllowListOf(o) = {2}
     /\ proc[q].op = "canview" /\ proc[q].pc = "view_allowed"
     /\ proc[q].user = 2 /\ proc[q].arg = o

\* C30: a reader sees a settings update as a whole: mode custom is accepted
\* only together with a list that is not empty, so a reader that has found
\* mode custom for an owner does not meet an allow-list left from before
\* the owner's first custom update, which is the empty list
C30_SettingsUpdateAtomicForReaders ==
  \A p \in Procs, o \in Users :
     (proc[p].op = "canview" /\ proc[p].pc = "view_allowed" /\ proc[p].arg = o)
     => AllowListOf(o) # {}

\* ------------------------------------------------------ coordinates spec
\* One worker; users 1 and 2 become friends, then post positions with every
\* accuracy level, set an accuracy tier and read the locator.

\* 46.9996, 47.0004 (both 47.000 at three decimals and 47.0 at one), 47.04
Lats == {469996, 470004, 470400}
Lons == {190000}

GeoLocationRequests ==
  [lat : Lats, lon : Lons, level : {""} \cup Levels, avail : {"nil"}, status : {"riding"}]

GeoVisibilityRequests ==
  [mode : {"friends"}, level : Levels, allowedIds : {[isNil |-> TRUE, ids |-> {}]}]

NextGeo ==
  \/ SendFriendRequest(1, 1, 2)
  \/ SendCheckExisting(1)
  \/ SendCreate(1)
  \/ AcceptFriendRequest(1, 2, 1)
  \/ AcceptTransaction(1)
  \/ Return(1)
  \/ \E u \in Users, req \in GeoLocationRequests : UpdateLocation(1, u, req)
  \/ UpdateUserLocation(1)
  \/ \E u \in Users, req \in GeoVisibilityRequests : UpdateVisibility(1, u, req)
  \/ UpdateVisibilitySettings(1)
  \/ \E u \in Users : GetLocator(1, u)

SpecGeo == Init /\ [][NextGeo]_vars

\* --------------------------------------------------- coordinates: claims

\* worker 1 has just completed a successful location update
LocationStored == proc[1].op = "location" /\ proc[1].pc = "done" /\ proc[1].res = "ok"

Dist(a, b) == IF a < b THEN b - a ELSE a - b

\* v is a multiple of m at most half of m away from the value sent
RoundedFrom(v, sent, m) == v % m = 0 /\ 2 * Dist(v, sent) <= m

C9_DistanceFromDegradedOnly ==
  \A v \in Users, o \in Users :
     (HasRow(locations, v) /\ o \in GetVisibleLocations(v)
        /\ HasRow(settings, o) /\ settings[o].level \in {"approximate", "city"})
     => \A q \in Lats :
          applyAccuracyLevel(q, locations[o].lon, settings[o].level)
            = applyAccuracyLevel(locations[o].lat, locations[o].lon, settings[o].level)
          => LocatorUser(o, locations[v], [locations[o] EXCEPT !.lat = q], settings[o])
               = LocatorUser(o, locations[v], locations[o], settings[o])

====
